---- MODULE Spec2Model ----
(***************************************************************************)
(* Booking lifecycle engine of tbz-booking-backend.                        *)
(*                                                                         *)
(* The stored bookings (the "game-table-booking".booking table) are the    *)
(* shared state.  Every lifecycle request (create, modify, accept, refuse, *)
(* cancel) is served in its own goroutine; a request is a short sequence   *)
(* of blocking calls: the repository read, the checks on the value read,   *)
(* the repository write, the notification.  Requests of different callers  *)
(* interleave between those calls.                                         *)
(***************************************************************************)
EXTENDS Integers, Sequences, FiniteSets, TLC

\* ------------------------------------------------------------------ bounds
MaxBookings == 1
NumProcs == 2
MaxRequests == 2
MaxCalls == 3

Procs == 1..NumProcs
BookingIDs == 1..MaxBookings
\* ------------------------------------------------------------- data model
\* discord.DiscordUser values the auth middleware can put in the context
user1 == [ID |-> "user1ID", Username |-> "user1", Admin |-> FALSE]
player2 == [ID |-> "player2ID", Username |-> "player2", Admin |-> FALSE]
adminUser == [ID |-> "adminID", Username |-> "admin", Admin |-> TRUE]
Users == {user1, player2, adminUser}
NoUser == [ID |-> "", Username |-> "", Admin |-> FALSE]

\* Booking{}: the zero value of the struct (ID 0 stands for the empty string)
NoBooking ==
    [ID |-> 0, Game |-> "", UserID |-> "", Username |-> "", Points |-> 0,
     Description |-> "", Status |-> "", ReminderEnabled |-> FALSE,
     DateTime |-> 0, Players |-> <<>>]

\* request bodies a client can post to the create endpoint: the draft carries
\* an ID and a status of its own, no players and no description
Drafts ==
    { [ID |-> 7, Game |-> "test2", UserID |-> "user1ID", Username |-> "user1",
       Points |-> 0, Description |-> "", Status |-> "accepted",
       ReminderEnabled |-> FALSE, DateTime |-> 2,
       Players |-> <<>>] }

\* request bodies a client can put to the modify endpoint: the payload
\* carries an ID of its own that no path names, changes every field, and its
\* players drop user1 and player2 and bring in admin
Updates ==
    { [ID |-> 7, Game |-> "test3", UserID |-> "adminID", Username |-> "admin",
       Points |-> 20, Description |-> "test description2", Status |-> "accepted",
       ReminderEnabled |-> FALSE, DateTime |-> 3,
       Players |-> <<"admin">>] }

Reasons == {"", "table taken"}

\* the row an earlier create has stored (the fixture of the tests)
PendingRow ==
    [ID |-> 1, Game |-> "test1", UserID |-> "user1ID", Username |-> "user1",
     Points |-> 10, Description |-> "test description1", Status |-> "pending",
     ReminderEnabled |-> TRUE, DateTime |-> 1,
     Players |-> <<"user1", "player2">>]

\* a row the engine did not write: the status column is free text, and the
\* tests of modify read a booking whose status is "approved"
LegacyRow ==
    [PendingRow EXCEPT !.Status = "approved"]

\* http.StatusUnauthorized
StatusUnauthorized == 401

\* ------------------------------------------------------------------ errors
Err(cause) == [cause |-> cause, wrapped |-> ""]
nil == Err("nil")
ErrBookingNotFound == Err("booking not found")
ErrInvalidBookingState == Err("invalid booking state")
ErrNotAllowed == Err("not allowed to perform this operation")
\* an opaque failure of the connection (pgx error)
ErrRepo == Err("repo error")
\* the failure SendMessage reports when the request does not go through
ErrSend == Err("failed to send request")
\* fmt.Errorf("...: %w", err)
Wrap(text, err) == [cause |-> err.cause, wrapped |-> text]
\* errors.Is(err, target)
Is(err, target) == err.cause = target.cause

Contains(seq, x) == \E i \in 1..Len(seq) : seq[i] = x

\* ---------------------------------------------------------- authentication
\* the role the server is configured with (adminRoleID of main)
AdminRoleID == "adminRoleID"

\* discord.Member values GetGuildMember can return: the members of the
\* guild with their roles
GuildMembers ==
    { [User |-> [ID |-> "user1ID", Username |-> "user1"],
       Roles |-> <<"playerRoleID">>],
      [User |-> [ID |-> "player2ID", Username |-> "player2"],
       Roles |-> <<>>],
      [User |-> [ID |-> "adminID", Username |-> "admin"],
       Roles |-> <<"playerRoleID", "adminRoleID">>] }

NoMember == [User |-> [ID |-> "", Username |-> ""], Roles |-> <<>>]

\* what a request brings to the middleware: the accesstoken header ("" when
\* the header is missing) and what GetGuildMember returns for that token
Credentials ==
    {[accessToken |-> "", member |-> NoMember, err |-> nil]}
    \cup {[accessToken |-> "stale", member |-> NoMember,
           err |-> Err("request failed with status 401")]}
    \cup {[accessToken |-> m.User.Username, member |-> m, err |-> nil] :
             m \in GuildMembers}

\* the identity the middleware puts in the context under "user"
DiscordUser(member) ==
    [ID |-> member.User.ID, Username |-> member.User.Username,
     Admin |-> Contains(member.Roles, AdminRoleID)]

\* a variant of the middleware that answers nothing and lets the chain go
\* on when the token is missing or rejected
DiscordAuth_NoAbort(cred) ==
    IF cred.accessToken = "" \/ cred.err # nil
    THEN [aborted |-> FALSE, code |-> 0, user |-> NoUser]
    ELSE [aborted |-> FALSE, code |-> 0, user |-> DiscordUser(cred.member)]

\* DiscordAuth: 401 and Abort without a token or when GetGuildMember fails,
\* else the caller identity is set and the chain goes on to the handler
DiscordAuth(cred) ==
    IF cred.accessToken = ""
    THEN [aborted |-> TRUE, code |-> StatusUnauthorized, user |-> NoUser]
    ELSE IF cred.err # nil
         THEN [aborted |-> TRUE, code |-> StatusUnauthorized, user |-> NoUser]
         ELSE [aborted |-> FALSE, code |-> 0, user |-> DiscordUser(cred.member)]

\* ------------------------------------------------------------------- state
\* repo   the booking table
\* req    the requests in flight, one per slot: where the request stands
\*        (pc), its arguments and the booking it holds in its local variable
\* resp   the answer to the request that was answered last: the HTTP status
\*        (code), whether the engine method was invoked, the error it
\*        returned, and what the request did on the way (wrote, sends, msg)
\* nreq   requests started so far
\* nsent  SendMessage calls made so far
\* cache  the cache of the chat client, shared by SearchMembers and
\*        GetGuildMember: what is stored under each key, and whether a
\*        search for the key has completed since the entry last expired
\* call   the client calls waiting for the answer of the platform
\* ret    what the client call that returned last gave back
\* ncall  client calls made so far
\* out    what the read endpoint that was called last has answered
VARIABLES repo, req, resp, nreq, nsent, cache, call, ret, ncall, out
clientVars == <<cache, call, ret, ncall>>
vars == <<repo, req, resp, nreq, nsent, cache, call, ret, ncall, out>>

Idle ==
    [pc |-> "idle", op |-> "none", id |-> 0, user |-> NoUser,
     updated |-> NoBooking, reason |-> "", booking |-> NoBooking]

NoResp ==
    [op |-> "none", id |-> 0, user |-> NoUser, updated |-> NoBooking,
     reason |-> "", booking |-> NoBooking, err |-> nil, wrote |-> FALSE,
     sends |-> 0, msg |-> <<>>, delivered |-> FALSE, code |-> 0,
     invoked |-> FALSE]

\* no read endpoint has answered yet
NoOut ==
    [op |-> "none", ok |-> TRUE, now |-> 0, id |-> 0, username |-> "",
     start |-> 0, end |-> 0, rows |-> {}, booking |-> NoBooking,
     counts |-> {}, err |-> nil, code |-> 0]

\* ------------------------------------------------------------- chat client
\* Strings the client trims are sequences of characters.  The guild has two
\* members whose names match the query "u" and none matching "t"; "t" is
\* also the access token of a member.
Queries == {<<"u">>, <<" ", "u">>, <<"t">>}
AccessTokens == {<<"t">>}

\* the limit sendNotification searches with, and the one SearchUsers uses
NotificationLimit == 1
SearchUsersLimit == 20
Limits == {NotificationLimit, SearchUsersLimit}

Member(id, username) == [ID |-> id, Username |-> username]

\* the guild members the platform matches with a query, best match first
Matches(query) ==
    IF query = <<"u">>
    THEN <<Member("u1ID", "u1"), Member("u2ID", "u2")>>
    ELSE <<>>

\* the member behind an access token
TokenMember(accessToken) == Member("u1ID", "u1")

RECURSIVE TrimLeft(_)
TrimLeft(str) ==
    IF Len(str) > 0 /\ Head(str) = " " THEN TrimLeft(Tail(str)) ELSE str

RECURSIVE TrimRight(_)
TrimRight(str) ==
    IF Len(str) > 0 /\ str[Len(str)] = " "
    THEN TrimRight(SubSeq(str, 1, Len(str) - 1))
    ELSE str

\* strings.TrimSpace
TrimSpace(str) == TrimRight(TrimLeft(str))

\* the keys the calls of the model can store under
Keys == {TrimSpace(q) : q \in Queries} \cup AccessTokens

\* the first limit elements of a list
Take(list, limit) ==
    SubSeq(list, 1, IF limit < Len(list) THEN limit ELSE Len(list))

\* a cache entry: kind "none" (nothing stored or expired), "members" (a
\* []Member, in val) or "member" (a *Member, the one element of val)
NoEntry == [kind |-> "none", val |-> <<>>, searched |-> FALSE]

NoCall == [pc |-> "idle", key |-> <<>>, limit |-> 0]

NoRet ==
    [op |-> "none", key |-> <<>>, limit |-> 0, kind |-> "none", val |-> <<>>,
     external |-> FALSE]

ClientInit ==
    /\ cache = [k \in Keys |-> NoEntry]
    /\ call = [p \in Procs |-> NoCall]
    /\ ret = NoRet
    /\ ncall = 0

\* the service starts on a table that is empty or holds a booking created
\* by an earlier run and still pending
Init ==
    /\ repo \in {<<>>, <<PendingRow>>}
    /\ req = [p \in Procs |-> Idle]
    /\ resp = NoResp
    /\ nreq = 0
    /\ nsent = 0
    /\ ClientInit
    /\ out = NoOut

\* the service starts on a table that is empty or holds a row the engine did
\* not write
InitLegacy ==
    /\ repo \in {<<>>, <<LegacyRow>>}
    /\ req = [p \in Procs |-> Idle]
    /\ resp = NoResp
    /\ nreq = 0
    /\ nsent = 0
    /\ ClientInit
    /\ out = NoOut

\* -------------------------------------------------------------- repository
\* The table is the sequence of its rows; the generated id of a row is its
\* position.  ok = FALSE is a failure of the connection.

\* a variant of the INSERT that binds the status of its parameter
InsertedRow_KeepStatus(booking, id) ==
    [booking EXCEPT !.ID = id]

\* the row INSERT stores: the status column is the literal 'pending'
InsertedRow(booking, id) ==
    [booking EXCEPT !.ID = id, !.Status = "pending"]

\* the value InsertBooking returns: its parameter with the scanned id
InsertReturned(booking, id) ==
    [booking EXCEPT !.ID = id]

\* a variant of the insert that reports a failure after the row went in
InsertBooking_RowKeptOnError(booking, ok) ==
    LET id == Len(repo) + 1
    IN IF ~ok
       THEN [repo |-> Append(repo, InsertedRow(booking, id)),
             booking |-> NoBooking,
             err |-> Wrap("failed to insert booking", ErrRepo)]
       ELSE [repo |-> Append(repo, InsertedRow(booking, id)),
             booking |-> InsertReturned(booking, id),
             err |-> nil]

InsertBooking(booking, ok) ==
    IF ~ok
    THEN [repo |-> repo, booking |-> NoBooking,
          err |-> Wrap("failed to insert booking", ErrRepo)]
    ELSE LET id == Len(repo) + 1
         IN [repo |-> Append(repo, InsertedRow(booking, id)),
             booking |-> InsertReturned(booking, id),
             err |-> nil]

GetBookingByID(id, ok) ==
    IF ~ok
    THEN [booking |-> NoBooking,
          err |-> Wrap("failed to fetch booking", ErrRepo)]
    ELSE IF id \notin DOMAIN repo
    THEN [booking |-> NoBooking, err |-> ErrBookingNotFound]
    ELSE [booking |-> repo[id], err |-> nil]

\* a variant of the UPDATE that also assigns the status column
UpdatedRow_WithStatus(row, booking) ==
    [row EXCEPT !.Game = booking.Game,
                !.Points = booking.Points,
                !.Description = booking.Description,
                !.ReminderEnabled = booking.ReminderEnabled,
                !.DateTime = booking.DateTime,
                !.Players = booking.Players,
                !.Status = booking.Status]

\* the columns UPDATE ... SET assigns
UpdatedRow(row, booking) ==
    [row EXCEPT !.Game = booking.Game,
                !.Points = booking.Points,
                !.Description = booking.Description,
                !.ReminderEnabled = booking.ReminderEnabled,
                !.DateTime = booking.DateTime,
                !.Players = booking.Players]

UpdateBooking(booking, ok) ==
    IF ~ok
    THEN [repo |-> repo, err |-> Wrap("failed to update booking", ErrRepo)]
    ELSE IF booking.ID \notin DOMAIN repo
    THEN [repo |-> repo, err |-> ErrBookingNotFound]
    ELSE [repo |-> [repo EXCEPT ![booking.ID] = UpdatedRow(@, booking)],
          err |-> nil]

\* a variant of the status write that deletes the row of a canceled booking
SetBookingStatus_DeleteCanceled(id, status, ok) ==
    IF ~ok
    THEN [repo |-> repo, err |-> Wrap("failed to update booking status", ErrRepo)]
    ELSE IF id \notin DOMAIN repo
    THEN [repo |-> repo, err |-> ErrBookingNotFound]
    ELSE IF status = "canceled"
    THEN [repo |-> SubSeq(repo, 1, id - 1), err |-> nil]
    ELSE [repo |-> [repo EXCEPT ![id].Status = status], err |-> nil]

\* a variant of the status write that does not look at the rows affected
SetBookingStatus_IgnoreRows(id, status, ok) ==
    IF ~ok
    THEN [repo |-> repo, err |-> Wrap("failed to update booking status", ErrRepo)]
    ELSE [repo |-> IF id \in DOMAIN repo
                   THEN [repo EXCEPT ![id].Status = status]
                   ELSE repo,
          err |-> nil]

\* a variant of the status UPDATE guarded by the stored status: it touches
\* the row only while it is pending
SetBookingStatus_IfPending(id, status, ok) ==
    IF ~ok
    THEN [repo |-> repo, err |-> Wrap("failed to update booking status", ErrRepo)]
    ELSE IF id \notin DOMAIN repo \/ repo[id].Status # "pending"
    THEN [repo |-> repo, err |-> ErrBookingNotFound]
    ELSE [repo |-> [repo EXCEPT ![id].Status = status], err |-> nil]

SetBookingStatus(id, status, ok) ==
    IF ~ok
    THEN [repo |-> repo, err |-> Wrap("failed to update booking status", ErrRepo)]
    ELSE IF id \notin DOMAIN repo
    THEN [repo |-> repo, err |-> ErrBookingNotFound]
    ELSE [repo |-> [repo EXCEPT ![id].Status = status], err |-> nil]

\* ------------------------------------------------------------------ engine
\* a variant of the predicate that looks at the participant list only
checkUserAllowed_PlayersOnly(booking, user) ==
    IF ~Contains(booking.Players, user.Username)
    THEN FALSE
    ELSE TRUE

\* a variant of the predicate that lets administrators through
checkUserAllowed_Admin(booking, user) ==
    IF booking.UserID # user.ID /\ ~Contains(booking.Players, user.Username)
       /\ ~user.Admin
    THEN FALSE
    ELSE TRUE

checkUserAllowed(booking, user) ==
    IF booking.UserID # user.ID /\ ~Contains(booking.Players, user.Username)
    THEN FALSE
    ELSE TRUE

\* a variant of the modify checks with the authorization check first
ModifyCheck_AuthFirst(booking, user) ==
    IF ~checkUserAllowed(booking, user) THEN ErrNotAllowed
    ELSE IF booking.Status # "pending" THEN ErrInvalidBookingState
    ELSE nil

\* the checks of each operation on the booking it has read
\* a variant of the modify checks without the authorization check
ModifyCheck_NoAuth(booking, user) ==
    IF booking.Status # "pending" THEN ErrInvalidBookingState
    ELSE nil

\* a variant of the modify checks that rejects the three known other statuses
ModifyCheck_Blacklist(booking, user) ==
    IF booking.Status \in {"accepted", "refused", "canceled"}
    THEN ErrInvalidBookingState
    ELSE IF ~checkUserAllowed(booking, user) THEN ErrNotAllowed
    ELSE nil

ModifyCheck(booking, user) ==
    IF booking.Status # "pending" THEN ErrInvalidBookingState
    ELSE IF ~checkUserAllowed(booking, user) THEN ErrNotAllowed
    ELSE nil

\* a variant of the accept check that forgets the accepted status
AcceptCheck_NoAccepted(booking) ==
    IF booking.Status = "canceled"
    THEN ErrInvalidBookingState
    ELSE nil

\* a variant of the accept check that also rejects a refused booking
AcceptCheck_RefusedToo(booking) ==
    IF booking.Status = "canceled" \/ booking.Status = "accepted"
       \/ booking.Status = "refused"
    THEN ErrInvalidBookingState
    ELSE nil

AcceptCheck(booking) ==
    IF booking.Status = "canceled" \/ booking.Status = "accepted"
    THEN ErrInvalidBookingState
    ELSE nil

\* a variant of the refuse check that forgets the canceled status
RefuseCheck_NoCanceled(booking) ==
    IF booking.Status = "refused"
    THEN ErrInvalidBookingState
    ELSE nil

RefuseCheck(booking) ==
    IF booking.Status = "refused" \/ booking.Status = "canceled"
    THEN ErrInvalidBookingState
    ELSE nil

\* a variant of the cancel checks with the authorization check first
CancelCheck_AuthFirst(booking, user) ==
    IF ~checkUserAllowed(booking, user) THEN ErrNotAllowed
    ELSE IF booking.Status = "canceled" \/ booking.Status = "refused"
    THEN ErrInvalidBookingState
    ELSE nil

CancelCheck(booking, user) ==
    IF booking.Status = "canceled" \/ booking.Status = "refused"
    THEN ErrInvalidBookingState
    ELSE IF ~checkUserAllowed(booking, user) THEN ErrNotAllowed
    ELSE nil

\* the fields ModifyBooking copies from the payload into the booking it read
ModifiedBooking(booking, updated) ==
    [booking EXCEPT !.Game = updated.Game,
                    !.Points = updated.Points,
                    !.Description = updated.Description,
                    !.ReminderEnabled = updated.ReminderEnabled,
                    !.DateTime = updated.DateTime,
                    !.Players = updated.Players]

\* ------------------------------------------------------------ notification
TitleCreated == "Nouvelle Reservation :calendar:"
TitleModified == "Reservation Modifiee :pencil:"
TitleAccepted == "Reservation Acceptee :white_check_mark:"
TitleRefused == "Reservation Refusee :no_entry:"
TitleCanceled == "Reservation Annulee :negative_squared_cross_mark:"

\* fmt.Sprintf("<@%v>", id)
Tag(id) == "<@" \o id \o ">"

\* what one SearchMembers(player, 1) call can give back
SearchOutcomes == {"error", "empty", "member"}

\* the platform id of the member a successful search for name returns
MemberID(name) == name \o "ID"

\* a variant of the loop that stops at the first player it cannot resolve
RECURSIVE PlayerTags_StopAtFailure(_, _, _)
PlayerTags_StopAtFailure(players, found, i) ==
    IF i > Len(players) THEN <<>>
    ELSE IF found[i] = "member"
    THEN <<Tag(MemberID(players[i]))>> \o PlayerTags_StopAtFailure(players, found, i + 1)
    ELSE <<>>

RECURSIVE PlayerTags(_, _, _)
PlayerTags(players, found, i) ==
    IF i > Len(players) THEN <<>>
    ELSE IF found[i] = "member"
    THEN <<Tag(MemberID(players[i]))>> \o PlayerTags(players, found, i + 1)
    ELSE PlayerTags(players, found, i + 1)

RECURSIVE Join(_, _)
Join(elems, sep) ==
    IF Len(elems) = 0 THEN ""
    ELSE IF Len(elems) = 1 THEN elems[1]
    ELSE elems[1] \o sep \o Join(Tail(elems), sep)

Field(name, value) == [Name |-> name, Value |-> value]

\* a variant of the embed that appends the reason field whatever the reason
Embed_ReasonAlways(booking, message, reason, found) ==
    LET userTag == IF booking.UserID # "" THEN Tag(booking.UserID)
                   ELSE Tag(booking.Username)
        description == IF booking.Description # "" THEN booking.Description
                       ELSE "Aucune"
        fields == << Field("Utilisateur", userTag),
                     Field("Date et Heure", ToString(booking.DateTime)),
                     Field("Jeu", booking.Game),
                     Field("Points", ToString(booking.Points)),
                     Field("Joueurs", Join(PlayerTags(booking.Players, found, 1), ", ")),
                     Field("Description", description) >>
    IN [Title |-> message,
        Fields |-> Append(fields, Field("Raison", reason))]

\* the embed sendNotification builds; found[i] is the outcome of the member
\* search for the i-th player
Embed(booking, message, reason, found) ==
    LET userTag == IF booking.UserID # "" THEN Tag(booking.UserID)
                   ELSE Tag(booking.Username)
        description == IF booking.Description # "" THEN booking.Description
                       ELSE "Aucune"
        fields == << Field("Utilisateur", userTag),
                     Field("Date et Heure", ToString(booking.DateTime)),
                     Field("Jeu", booking.Game),
                     Field("Points", ToString(booking.Points)),
                     Field("Joueurs", Join(PlayerTags(booking.Players, found, 1), ", ")),
                     Field("Description", description) >>
    IN [Title |-> message,
        Fields |-> IF reason # "" THEN Append(fields, Field("Raison", reason))
                   ELSE fields]

\* ---------------------------------------------------------------- handlers
StatusOK == 200
StatusCreated == 201
StatusBadRequest == 400
StatusForbidden == 403
StatusNotFound == 404
StatusInternalServerError == 500

\* a variant of the middleware that answers 403 and forgets c.Abort()
AdminOnly_NoAbort(user) ==
    [aborted |-> FALSE,
     code |-> IF ~user.Admin THEN StatusForbidden ELSE 0]

\* the AdminOnly middleware in front of the accept and refuse handlers: it
\* answers 403 and aborts the chain when the user is no administrator
AdminOnly(user) ==
    [aborted |-> ~user.Admin,
     code |-> IF ~user.Admin THEN StatusForbidden ELSE 0]

\* the HTTP status each handler answers with for the error of its engine call
CreateStatus(err) ==
    IF err # nil THEN StatusBadRequest ELSE StatusCreated

AcceptStatus(err) ==
    IF err # nil
    THEN IF Is(err, ErrBookingNotFound) THEN StatusNotFound
         ELSE IF Is(err, ErrInvalidBookingState) THEN StatusBadRequest
         ELSE StatusInternalServerError
    ELSE StatusOK

RefuseStatus(err) ==
    IF err # nil
    THEN IF Is(err, ErrBookingNotFound) THEN StatusNotFound
         ELSE IF Is(err, ErrInvalidBookingState) THEN StatusBadRequest
         ELSE StatusInternalServerError
    ELSE StatusOK

CancelStatus(err) ==
    IF err # nil
    THEN IF Is(err, ErrBookingNotFound) THEN StatusNotFound
         ELSE IF Is(err, ErrInvalidBookingState) THEN StatusBadRequest
         ELSE StatusInternalServerError
    ELSE StatusOK

ModifyStatus(err) ==
    IF err # nil
    THEN IF Is(err, ErrNotAllowed) THEN StatusForbidden
         ELSE StatusInternalServerError
    ELSE StatusOK

HandlerStatus(opname, err) ==
    CASE opname = "create" -> CreateStatus(err)
      [] opname = "modify" -> ModifyStatus(err)
      [] opname = "accept" -> AcceptStatus(err)
      [] opname = "refuse" -> RefuseStatus(err)
      [] opname = "cancel" -> CancelStatus(err)

\* ----------------------------------------------------------------- actions
\* A request occupies a slot from its first repository call until its engine
\* method returns.  A method that returns at its first call never holds one.

\* a new request takes the lowest free slot
Free(p) ==
    /\ req[p].pc = "idle"
    /\ \A q \in Procs : q < p => req[q].pc # "idle"

\* the engine method returns err without having written or sent anything,
\* and the handler answers with the status of that error
Failed(opname, id, user, updated, reason, booking, err) ==
    [NoResp EXCEPT !.op = opname, !.id = id, !.user = user,
                   !.updated = updated, !.reason = reason,
                   !.booking = booking, !.err = err,
                   !.code = HandlerStatus(opname, err), !.invoked = TRUE]

\* the middleware has answered and aborted: the handler does not run
Aborted(opname, id, user, reason, code) ==
    [NoResp EXCEPT !.op = opname, !.id = id, !.user = user,
                   !.reason = reason, !.code = code]

\* the read and the checks of modify, accept, refuse, cancel: the method
\* either returns the error or goes on to its write
Read(p, opname, id, user, updated, reason, r, check) ==
    LET err == IF r.err # nil THEN r.err ELSE check
    IN IF err # nil
       THEN /\ resp' = Failed(opname, id, user, updated, reason, r.booking, err)
            /\ UNCHANGED req
       ELSE /\ req' = [req EXCEPT ![p] =
                         [pc |-> "write", op |-> opname, id |-> id,
                          user |-> user, updated |-> updated,
                          reason |-> reason, booking |-> r.booking]]
            /\ UNCHANGED resp

\* the return of the write: on error the method returns it, else it goes on
\* to the notification holding booking in its local variable
Written(p, booking, err) ==
    IF err # nil
    THEN /\ resp' = Failed(req[p].op, req[p].id, req[p].user, req[p].updated,
                           req[p].reason, booking, err)
         /\ req' = [req EXCEPT ![p] = Idle]
    ELSE /\ req' = [req EXCEPT ![p].pc = "notify", ![p].booking = booking]
         /\ UNCHANGED resp

\* the request stops at the middleware: no handler runs for it
Unauthorized(cred) ==
    /\ nreq < MaxRequests
    /\ DiscordAuth(cred).aborted
    /\ resp' = Aborted("none", 0, NoUser, "", DiscordAuth(cred).code)
    /\ nreq' = nreq + 1
    /\ UNCHANGED <<repo, req, nsent>>
    /\ UNCHANGED <<clientVars, out>>

\* the requests the middleware lets through to a handler
Authenticated == {cred \in Credentials : ~DiscordAuth(cred).aborted}
\* the identity the handler of a request with cred reads from the context
Caller(cred) == DiscordAuth(cred).user
\* the requests that post drafts: those of the callers that are no admins,
\* one of them the user the draft names as its owner
Posting == {cred \in Authenticated : ~Caller(cred).Admin}

\* the create endpoint called with a draft by an authenticated user: the
\* body is bound and handed to CreateBooking, which runs up to the return of
\* InsertBooking
CreateInsert(p) ==
    /\ Free(p)
    /\ nreq < MaxRequests
    /\ \E draft \in Drafts, cred \in Posting, ok \in BOOLEAN :
          LET user == Caller(cred)
              r == InsertBooking(draft, ok)
          IN /\ ok => Len(repo) < MaxBookings
             /\ repo' = r.repo
             /\ IF r.err # nil
                THEN /\ resp' = Failed("create", 0, user, draft, "", r.booking,
                                       r.err)
                     /\ UNCHANGED req
                ELSE /\ req' = [req EXCEPT ![p] =
                                  [pc |-> "notify", op |-> "create",
                                   id |-> r.booking.ID, user |-> user,
                                   updated |-> draft, reason |-> "",
                                   booking |-> r.booking]]
                     /\ UNCHANGED resp
    /\ nreq' = nreq + 1
    /\ UNCHANGED nsent
    /\ UNCHANGED <<clientVars, out>>

\* a variant of the handler that leaves the ID of the body as it is
BoundBooking_BodyID(body, id) ==
    body

\* the booking the modify handler hands to the engine: the body with the ID
\* of the path
BoundBooking(body, id) ==
    [body EXCEPT !.ID = id]

\* the modify endpoint called with a body for path ID id by an authenticated
\* user, then ModifyBooking up to the authorization check
ModifyRead(p) ==
    /\ Free(p)
    /\ nreq < MaxRequests
    /\ \E body \in Updates, id \in BookingIDs, cred \in Authenticated,
          ok \in BOOLEAN :
          LET user == Caller(cred)
              updated == BoundBooking(body, id)
              r == GetBookingByID(updated.ID, ok)
          IN Read(p, "modify", id, user, updated, "", r,
                  ModifyCheck(r.booking, user))
    /\ nreq' = nreq + 1
    /\ UNCHANGED <<repo, nsent>>
    /\ UNCHANGED <<clientVars, out>>

\* ModifyBooking: the field assignments and the UpdateBooking call
ModifyWrite(p, ok) ==
    /\ req[p].pc = "write"
    /\ req[p].op = "modify"
    /\ LET booking == ModifiedBooking(req[p].booking, req[p].updated)
           r == UpdateBooking(booking, ok)
       IN /\ repo' = r.repo
          /\ Written(p, booking, r.err)
    /\ UNCHANGED <<nreq, nsent>>
    /\ UNCHANGED <<clientVars, out>>

\* the accept endpoint: AdminOnly, then AcceptBooking up to the status check
AcceptRead(p) ==
    /\ Free(p)
    /\ nreq < MaxRequests
    /\ \E id \in BookingIDs, cred \in Authenticated, ok \in BOOLEAN :
          LET user == Caller(cred)
              a == AdminOnly(user)
              r == GetBookingByID(id, ok)
          IN IF a.aborted
             THEN /\ resp' = Aborted("accept", id, user, "", a.code)
                  /\ UNCHANGED req
             ELSE Read(p, "accept", id, user, NoBooking, "", r,
                       AcceptCheck(r.booking))
    /\ nreq' = nreq + 1
    /\ UNCHANGED <<repo, nsent>>
    /\ UNCHANGED <<clientVars, out>>

\* a variant of accept that writes the status "approved"
AcceptWrite_Approved(p, ok) ==
    /\ req[p].pc = "write"
    /\ req[p].op = "accept"
    /\ LET r == SetBookingStatus(req[p].id, "approved", ok)
       IN /\ repo' = r.repo
          /\ Written(p, req[p].booking, r.err)
    /\ UNCHANGED <<nreq, nsent>>
    /\ UNCHANGED <<clientVars, out>>

\* AcceptBooking: the SetBookingStatus call
AcceptWrite(p, ok) ==
    /\ req[p].pc = "write"
    /\ req[p].op = "accept"
    /\ LET r == SetBookingStatus(req[p].id, "accepted", ok)
       IN /\ repo' = r.repo
          /\ Written(p, req[p].booking, r.err)
    /\ UNCHANGED <<nreq, nsent>>
    /\ UNCHANGED <<clientVars, out>>

\* the refuse endpoint: AdminOnly, then RefuseBooking up to the status check
RefuseRead(p) ==
    /\ Free(p)
    /\ nreq < MaxRequests
    /\ \E id \in BookingIDs, cred \in Authenticated, reason \in Reasons,
          ok \in BOOLEAN :
          LET user == Caller(cred)
              a == AdminOnly(user)
              r == GetBookingByID(id, ok)
          IN IF a.aborted
             THEN /\ resp' = Aborted("refuse", id, user, "", a.code)
                  /\ UNCHANGED req
             ELSE Read(p, "refuse", id, user, NoBooking, reason, r,
                       RefuseCheck(r.booking))
    /\ nreq' = nreq + 1
    /\ UNCHANGED <<repo, nsent>>
    /\ UNCHANGED <<clientVars, out>>

\* RefuseBooking: the SetBookingStatus call
RefuseWrite(p, ok) ==
    /\ req[p].pc = "write"
    /\ req[p].op = "refuse"
    /\ LET r == SetBookingStatus(req[p].id, "refused", ok)
       IN /\ repo' = r.repo
          /\ Written(p, req[p].booking, r.err)
    /\ UNCHANGED <<nreq, nsent>>
    /\ UNCHANGED <<clientVars, out>>

\* CancelBooking up to the authorization check
CancelRead(p) ==
    /\ Free(p)
    /\ nreq < MaxRequests
    /\ \E id \in BookingIDs, cred \in Authenticated, ok \in BOOLEAN :
          LET user == Caller(cred)
              r == GetBookingByID(id, ok)
          IN Read(p, "cancel", id, user, NoBooking, "", r,
                  CancelCheck(r.booking, user))
    /\ nreq' = nreq + 1
    /\ UNCHANGED <<repo, nsent>>
    /\ UNCHANGED <<clientVars, out>>

\* a variant of cancel that returns the error of the write as it is
CancelWrite_Unwrapped(p, ok) ==
    /\ req[p].pc = "write"
    /\ req[p].op = "cancel"
    /\ LET r == SetBookingStatus(req[p].id, "canceled", ok)
       IN /\ repo' = r.repo
          /\ Written(p, req[p].booking, r.err)
    /\ UNCHANGED <<nreq, nsent>>
    /\ UNCHANGED <<clientVars, out>>

\* CancelBooking: the SetBookingStatus call and the wrapping of its error
CancelWrite(p, ok) ==
    /\ req[p].pc = "write"
    /\ req[p].op = "cancel"
    /\ LET r == SetBookingStatus(req[p].id, "canceled", ok)
           err == IF r.err # nil THEN Wrap("failed to cancel booking", r.err)
                  ELSE nil
       IN /\ repo' = r.repo
          /\ Written(p, req[p].booking, err)
    /\ UNCHANGED <<nreq, nsent>>
    /\ UNCHANGED <<clientVars, out>>

\* the title each operation passes to sendNotification
Title(opname) ==
    CASE opname = "create" -> TitleCreated
      [] opname = "modify" -> TitleModified
      [] opname = "accept" -> TitleAccepted
      [] opname = "refuse" -> TitleRefused
      [] opname = "cancel" -> TitleCanceled

\* a variant of the engine methods that hands the failure of the delivery
\* to the caller
AfterNotification_SendError(err, delivered) ==
    IF err = nil /\ ~delivered THEN Wrap("failed to send notification", ErrSend)
    ELSE err

\* what an engine method returns once sendNotification is back: the error of
\* its write (nil here); sendNotification drops the error of SendMessage and
\* its own result is not looked at
AfterNotification(err, delivered) ==
    err

\* the messages sendNotification can build for booking: one for every way
\* its member searches, one per player, can turn out
Messages(booking, title, reason) ==
    { Embed(booking, title, reason, found) :
        found \in [1..Len(booking.Players) -> SearchOutcomes] }

\* a variant of sendNotification that sends again when the delivery failed
Notify_Retry(p, delivered) ==
    /\ req[p].pc = "notify"
    /\ \E msg \in Messages(req[p].booking, Title(req[p].op), req[p].reason) :
          LET err == AfterNotification(nil, delivered)
          IN resp' = [op |-> req[p].op, id |-> req[p].id, user |-> req[p].user,
                      updated |-> req[p].updated, reason |-> req[p].reason,
                      booking |-> req[p].booking, err |-> err, wrote |-> TRUE,
                      sends |-> IF delivered THEN 1 ELSE 2,
                      msg |-> msg,
                      delivered |-> delivered,
                      code |-> HandlerStatus(req[p].op, err),
                      invoked |-> TRUE]
    /\ req' = [req EXCEPT ![p] = Idle]
    /\ nsent' = nsent + (IF delivered THEN 1 ELSE 2)
    /\ UNCHANGED <<repo, nreq>>
    /\ UNCHANGED <<clientVars, out>>

\* sendNotification: one member search per player, then one SendMessage,
\* whose error is dropped; then the engine method returns and the handler
\* answers
Notify(p, delivered) ==
    /\ req[p].pc = "notify"
    /\ \E msg \in Messages(req[p].booking, Title(req[p].op), req[p].reason) :
          LET err == AfterNotification(nil, delivered)
          IN resp' = [op |-> req[p].op, id |-> req[p].id, user |-> req[p].user,
                      updated |-> req[p].updated, reason |-> req[p].reason,
                      booking |-> req[p].booking, err |-> err, wrote |-> TRUE,
                      sends |-> 1,
                      msg |-> msg,
                      delivered |-> delivered,
                      code |-> HandlerStatus(req[p].op, err),
                      invoked |-> TRUE]
    /\ req' = [req EXCEPT ![p] = Idle]
    /\ nsent' = nsent + 1
    /\ UNCHANGED <<repo, nreq>>
    /\ UNCHANGED <<clientVars, out>>

Next ==
    \/ \E cred \in Credentials : Unauthorized(cred)
    \/ \E p \in Procs : CreateInsert(p)
    \/ \E p \in Procs : ModifyRead(p)
    \/ \E p \in Procs, ok \in BOOLEAN : ModifyWrite(p, ok)
    \/ \E p \in Procs : AcceptRead(p)
    \/ \E p \in Procs, ok \in BOOLEAN : AcceptWrite(p, ok)
    \/ \E p \in Procs : RefuseRead(p)
    \/ \E p \in Procs, ok \in BOOLEAN : RefuseWrite(p, ok)
    \/ \E p \in Procs : CancelRead(p)
    \/ \E p \in Procs, ok \in BOOLEAN : CancelWrite(p, ok)
    \/ \E p \in Procs, delivered \in BOOLEAN : Notify(p, delivered)

Spec == Init /\ [][Next]_vars

SpecLegacy == InitLegacy /\ [][Next]_vars

\* ----------------------------------------------------- chat client actions
\* A client call is answered from the cache at once, or waits in a slot for
\* the answer of the platform.  The table and the lifecycle requests play no
\* part in these steps.

FreeCall(p) ==
    /\ call[p].pc = "idle"
    /\ \A q \in Procs : q < p => call[q].pc # "idle"

Returned(opname, key, limit, kind, val, external) ==
    [op |-> opname, key |-> key, limit |-> limit, kind |-> kind, val |-> val,
     external |-> external]

\* SearchMembers up to the request to the platform: the query is trimmed
\* and looked up; what is found is asserted to be a []Member and returned
SearchMembers(p, query, limit) ==
    /\ FreeCall(p)
    /\ ncall < MaxCalls
    /\ LET key == TrimSpace(query)
           e == cache[key]
       IN IF e.kind # "none"
          THEN /\ ret' = IF e.kind = "members"
                         THEN Returned("search", key, limit, "members", e.val, FALSE)
                         ELSE Returned("search", key, limit, "panic", <<>>, FALSE)
               /\ UNCHANGED call
          ELSE /\ call' = [call EXCEPT ![p] =
                             [pc |-> "search", key |-> key, limit |-> limit]]
               /\ UNCHANGED ret
    /\ ncall' = ncall + 1
    /\ UNCHANGED <<cache, repo, req, resp, nreq, nsent, out>>

\* SearchMembers from the answer of the platform: a failure is returned, a
\* list (empty or not) is stored under the query and returned
SearchMembersReturn(p, ok) ==
    /\ call[p].pc = "search"
    /\ LET key == call[p].key
           members == Take(Matches(key), call[p].limit)
       IN IF ok
          THEN /\ cache' = [cache EXCEPT ![key] =
                              [kind |-> "members", val |-> members,
                               searched |-> TRUE]]
               /\ ret' = Returned("search", key, call[p].limit, "members",
                                  members, TRUE)
          ELSE /\ ret' = Returned("search", key, call[p].limit, "error",
                                  <<>>, TRUE)
               /\ UNCHANGED cache
    /\ call' = [call EXCEPT ![p] = NoCall]
    /\ UNCHANGED <<ncall, repo, req, resp, nreq, nsent, out>>

\* GetGuildMember up to the request to the platform: what is found under
\* the access token is asserted to be a *Member and returned
GetGuildMember(p, accessToken) ==
    /\ FreeCall(p)
    /\ ncall < MaxCalls
    /\ LET e == cache[accessToken]
       IN IF e.kind # "none"
          THEN /\ ret' = IF e.kind = "member"
                         THEN Returned("member", accessToken, 0, "member", e.val, FALSE)
                         ELSE Returned("member", accessToken, 0, "panic", <<>>, FALSE)
               /\ UNCHANGED call
          ELSE /\ call' = [call EXCEPT ![p] =
                             [pc |-> "member", key |-> accessToken, limit |-> 0]]
               /\ UNCHANGED ret
    /\ ncall' = ncall + 1
    /\ UNCHANGED <<cache, repo, req, resp, nreq, nsent, out>>

\* GetGuildMember from the answer of the platform: the member is stored
\* under the access token and returned
GetGuildMemberReturn(p, ok) ==
    /\ call[p].pc = "member"
    /\ LET key == call[p].key
           member == <<TokenMember(key)>>
       IN IF ok
          THEN /\ cache' = [cache EXCEPT ![key] =
                              [kind |-> "member", val |-> member,
                               searched |-> @.searched]]
               /\ ret' = Returned("member", key, 0, "member", member, TRUE)
          ELSE /\ ret' = Returned("member", key, 0, "error", <<>>, TRUE)
               /\ UNCHANGED cache
    /\ call' = [call EXCEPT ![p] = NoCall]
    /\ UNCHANGED <<ncall, repo, req, resp, nreq, nsent, out>>

\* the lifetime of the entry under key is over
Expire(key) ==
    /\ cache[key].kind # "none"
    /\ cache' = [cache EXCEPT ![key] = NoEntry]
    /\ UNCHANGED <<call, ret, ncall, repo, req, resp, nreq, nsent, out>>

NextClient ==
    \/ \E p \in Procs, query \in Queries, limit \in Limits :
          SearchMembers(p, query, limit)
    \/ \E p \in Procs, ok \in BOOLEAN : SearchMembersReturn(p, ok)
    \/ \E p \in Procs, accessToken \in AccessTokens : GetGuildMember(p, accessToken)
    \/ \E p \in Procs, ok \in BOOLEAN : GetGuildMemberReturn(p, ok)
    \/ \E key \in Keys : Expire(key)

SpecClient == Init /\ [][NextClient]_vars

\* ---------------------------------------------------------- read endpoints
\* Instants are days counted from a Sunday.  The clock of the database
\* server reads day 2 when the reads are made.
ReadTimes == {1, 2, 8}
Clock == {2}

\* TO_CHAR("dateTime", 'Day'): the name of the day, blank-padded to nine
\* characters
DayNames ==
    <<"Sunday   ", "Monday   ", "Tuesday  ", "Wednesday", "Thursday ",
      "Friday   ", "Saturday ">>
WeekDay(dateTime) == DayNames[(dateTime % Len(DayNames)) + 1]

Games == {"test1", "test2"}
Statuses == {"pending", "accepted", "refused", "canceled"}
Usernames == {"user1", "player2", "admin"}

\* the bookings the table can hold when the reads are made: the bookings of
\* test1 are those of user1 with player2, a week apart around the clock; the
\* bookings of test2 are those of player2 alone, at the instant of the clock
ReadRows ==
    { [PendingRow EXCEPT !.Status = st, !.DateTime = t] :
        st \in Statuses, t \in {1, 8} }
    \cup
    { [PendingRow EXCEPT !.Status = st, !.Game = "test2", !.DateTime = 2,
                         !.UserID = "player2ID", !.Username = "player2",
                         !.Players = <<>>] : st \in Statuses }

\* the tables of up to MaxBookings + 1 such rows, each under its position
ReadTables ==
    UNION { { [i \in 1..n |-> [rows[i] EXCEPT !.ID = i]] :
                rows \in [1..n -> ReadRows] } : n \in 0..(MaxBookings + 1) }

\* SELECT ... WHERE "dateTime" >= $1 with time.Now().  The query has no
\* ORDER BY: the result is kept as the set of its rows.
Repository_GetActiveBookings_After(now, ok) ==
    IF ~ok
    THEN [rows |-> {}, err |-> Wrap("failed to fetch bookings", ErrRepo)]
    ELSE [rows |-> {repo[id] : id \in {i \in DOMAIN repo :
                                          repo[i].DateTime > now}},
          err |-> nil]

Repository_GetActiveBookings(now, ok) ==
    IF ~ok
    THEN [rows |-> {}, err |-> Wrap("failed to fetch bookings", ErrRepo)]
    ELSE [rows |-> {repo[id] : id \in {i \in DOMAIN repo :
                                          repo[i].DateTime >= now}},
          err |-> nil]

\* SELECT ... WHERE username=$1 OR $1 = ANY(players)
GetBookingsPerUsername(username, ok) ==
    IF ~ok
    THEN [rows |-> {}, err |-> Wrap("failed to fetch bookings", ErrRepo)]
    ELSE [rows |-> {repo[id] : id \in {i \in DOMAIN repo :
                                          \/ repo[i].Username = username
                                          \/ Contains(repo[i].Players, username)}},
          err |-> nil]

\* SELECT key, COUNT(*) ... GROUP BY key over the rows ids: one entry per key
\* that occurs.  The order of entries with equal counts is not defined: the
\* result is kept as the set of its entries.
GameBookingCounts(ids) ==
    { [Game |-> g, Count |-> Cardinality({id \in ids : repo[id].Game = g})] :
        g \in {repo[id].Game : id \in ids} }

WeekDayBookingCounts(ids) ==
    { [WeekDay |-> d,
       Count |-> Cardinality({id \in ids : WeekDay(repo[id].DateTime) = d})] :
        d \in {WeekDay(repo[id].DateTime) : id \in ids} }

\* a variant of the query that leaves out pending and canceled bookings only
Repository_GetBookingCountPerGame_Refused(ok) ==
    IF ~ok
    THEN [counts |-> {},
          err |-> Wrap("failed to fetch bookings count per game", ErrRepo)]
    ELSE [counts |-> GameBookingCounts({id \in DOMAIN repo :
                        repo[id].Status \notin {"pending", "canceled"}}),
          err |-> nil]

\* ... WHERE booking.status NOT IN ('pending', 'canceled', 'refused')
\* GROUP BY booking.game
Repository_GetBookingCountPerGame(ok) ==
    IF ~ok
    THEN [counts |-> {},
          err |-> Wrap("failed to fetch bookings count per game", ErrRepo)]
    ELSE [counts |-> GameBookingCounts({id \in DOMAIN repo :
                        repo[id].Status \notin {"pending", "canceled", "refused"}}),
          err |-> nil]

\* ... GROUP BY TO_CHAR("dateTime", 'Day')
Repository_GetBookingCountPerWeekDay(ok) ==
    IF ~ok
    THEN [counts |-> {},
          err |-> Wrap("failed to fetch bookings count per game", ErrRepo)]
    ELSE [counts |-> WeekDayBookingCounts({id \in DOMAIN repo :
                        repo[id].Status \notin {"pending", "canceled", "refused"}}),
          err |-> nil]

\* ... WHERE booking."dateTime" BETWEEN $1 AND $2 AND booking.status NOT IN ...
Repository_GetBookingCountPerGameInPeriod(start, end, ok) ==
    IF ~ok
    THEN [counts |-> {},
          err |-> Wrap("failed to fetch bookings count per game", ErrRepo)]
    ELSE [counts |-> GameBookingCounts({id \in DOMAIN repo :
                        /\ repo[id].DateTime >= start
                        /\ repo[id].DateTime <= end
                        /\ repo[id].Status \notin {"pending", "canceled", "refused"}}),
          err |-> nil]

\* the read methods of the engine
GetActiveBookings(now, ok) ==
    Repository_GetActiveBookings(now, ok)

\* a variant of the method that hands out pending bookings only
FindBookingByID_PendingOnly(id, ok) ==
    LET r == GetBookingByID(id, ok)
    IN IF r.err = nil /\ r.booking.Status # "pending"
       THEN [booking |-> NoBooking, err |-> ErrInvalidBookingState]
       ELSE r

FindBookingByID(id, ok) ==
    GetBookingByID(id, ok)

FindBookingsPerUsername(username, ok) ==
    GetBookingsPerUsername(username, ok)

GetBookingCountPerGame(ok) ==
    Repository_GetBookingCountPerGame(ok)

GetBookingCountPerGameInPeriod(start, end, ok) ==
    Repository_GetBookingCountPerGameInPeriod(start, end, ok)

GetBookingCountPerWeekDay(ok) ==
    Repository_GetBookingCountPerWeekDay(ok)

\* the status the read handlers answer with: GetByID tells NotFound apart
ReadStatus(opname, err) ==
    IF err = nil THEN StatusOK
    ELSE IF opname = "GetByID" /\ Is(err, ErrBookingNotFound)
         THEN StatusNotFound
         ELSE StatusInternalServerError

\* the handlers of the read endpoints, each with the engine method it calls;
\* now is what the clock reads when the query of ListActive runs
ListActive(now, ok) ==
    /\ LET r == GetActiveBookings(now, ok)
       IN out' = [NoOut EXCEPT !.op = "ListActive", !.ok = ok, !.now = now,
                               !.rows = r.rows, !.err = r.err,
                               !.code = ReadStatus("ListActive", r.err)]
    /\ UNCHANGED <<repo, req, resp, nreq, nsent, clientVars>>

GetByID(id, ok) ==
    /\ LET r == FindBookingByID(id, ok)
       IN out' = [NoOut EXCEPT !.op = "GetByID", !.ok = ok, !.id = id,
                               !.booking = r.booking, !.err = r.err,
                               !.code = ReadStatus("GetByID", r.err)]
    /\ UNCHANGED <<repo, req, resp, nreq, nsent, clientVars>>

GetByUsername(username, ok) ==
    /\ LET r == FindBookingsPerUsername(username, ok)
       IN out' = [NoOut EXCEPT !.op = "GetByUsername", !.ok = ok,
                               !.username = username,
                               !.rows = r.rows, !.err = r.err,
                               !.code = ReadStatus("GetByUsername", r.err)]
    /\ UNCHANGED <<repo, req, resp, nreq, nsent, clientVars>>

GetGameStats(ok) ==
    /\ LET r == GetBookingCountPerGame(ok)
       IN out' = [NoOut EXCEPT !.op = "GetGameStats", !.ok = ok,
                               !.counts = r.counts, !.err = r.err,
                               !.code = ReadStatus("GetGameStats", r.err)]
    /\ UNCHANGED <<repo, req, resp, nreq, nsent, clientVars>>

GetGameStatsPerPeriod(start, end, ok) ==
    /\ LET r == GetBookingCountPerGameInPeriod(start, end, ok)
       IN out' = [NoOut EXCEPT !.op = "GetGameStatsPerPeriod", !.ok = ok,
                               !.start = start, !.end = end,
                               !.counts = r.counts, !.err = r.err,
                               !.code = ReadStatus("GetGameStatsPerPeriod", r.err)]
    /\ UNCHANGED <<repo, req, resp, nreq, nsent, clientVars>>

GetGameStatsPerDay(ok) ==
    /\ LET r == GetBookingCountPerWeekDay(ok)
       IN out' = [NoOut EXCEPT !.op = "GetGameStatsPerDay", !.ok = ok,
                               !.counts = r.counts, !.err = r.err,
                               !.code = ReadStatus("GetGameStatsPerDay", r.err)]
    /\ UNCHANGED <<repo, req, resp, nreq, nsent, clientVars>>

\* the reads are made on a table that holds any of the bookings above
InitRead ==
    /\ repo \in ReadTables
    /\ req = [p \in Procs |-> Idle]
    /\ resp = NoResp
    /\ nreq = 0
    /\ nsent = 0
    /\ ClientInit
    /\ out = NoOut

NextRead ==
    \/ \E now \in Clock, ok \in BOOLEAN : ListActive(now, ok)
    \/ \E id \in 1..(MaxBookings + 2), ok \in BOOLEAN : GetByID(id, ok)
    \/ \E username \in Usernames, ok \in BOOLEAN : GetByUsername(username, ok)
    \/ \E ok \in BOOLEAN : GetGameStats(ok)
    \/ \E start \in ReadTimes, end \in ReadTimes, ok \in BOOLEAN :
          GetGameStatsPerPeriod(start, end, ok)
    \/ \E ok \in BOOLEAN : GetGameStatsPerDay(ok)

SpecRead == InitRead /\ [][NextRead]_vars

TypeOK ==
    /\ Len(repo) <= MaxBookings
    /\ nreq \in 0..MaxRequests
    /\ nsent \in 0..MaxRequests
    /\ \A p \in Procs : req[p].pc \in {"idle", "write", "notify"}

\* ------------------------------------------------------------------ claims
\* vocabulary of the properties

\* the request op of slot p has passed its checks and is about to write
AtWrite(p, opname) == req[p].op = opname /\ req[p].pc = "write"

\* the last response is that of an opname request whose read succeeded
Answered(opname) == resp.op = opname /\ resp.booking.ID # 0

\* the response is a success or a failure of the connection
OkOrRepoFailure(err) == err = nil \/ err.cause = ErrRepo.cause

\* this step is the successful write of the opname request in slot p
WriteStep(p, opname) ==
    /\ req[p].op = opname
    /\ req[p].pc = "write"
    /\ req'[p].pc = "notify"

\* this step is a request that returned at its first repository call
ReturnedAtRead == nreq' # nreq /\ req' = req

\* u is the owner of b or one of its listed participants
OwnerOrParticipant(b, u) ==
    \/ u.ID = b.UserID
    \/ \E i \in DOMAIN b.Players : b.Players[i] = u.Username

\* C1: once the stored status of a booking is refused, every accept, refuse,
\* cancel and modify that reads it fails with InvalidState and none of them
\* gets as far as its write.
C1_RefusedIsTerminal ==
    /\ \A p \in Procs : req[p].pc = "write" => req[p].booking.Status # "refused"
    /\ \A o \in {"accept", "refuse", "cancel", "modify"} :
          (Answered(o) /\ resp.booking.Status = "refused")
             => resp.err = ErrInvalidBookingState

\* C2: in every interleaving, a stored status that has become canceled never
\* changes again.
C2_CanceledIsTerminal ==
    [][\A id \in DOMAIN repo :
          repo[id].Status = "canceled" => repo'[id].Status = "canceled"]_vars

\* C3: accept on an existing booking answers InvalidState exactly when the
\* status it read is accepted or canceled; on every other status it goes on to
\* its write, which (the connection permitting) stores accepted, and answers
\* success.
C3_AcceptOutcome ==
    /\ [](/\ \A p \in Procs :
               AtWrite(p, "accept") => req[p].booking.Status \notin {"accepted", "canceled"}
          /\ Answered("accept") =>
               /\ resp.booking.Status \in {"accepted", "canceled"}
                     <=> resp.err = ErrInvalidBookingState
               /\ resp.booking.Status \notin {"accepted", "canceled"}
                     => OkOrRepoFailure(resp.err)
               /\ resp.err = nil <=> resp.wrote)
    /\ [][\A p \in Procs :
             WriteStep(p, "accept") => repo'[req[p].id].Status = "accepted"]_vars

C3_Witness ==
    /\ Answered("accept")
    /\ resp.err = nil
    /\ resp.booking.Status = "refused"
    /\ repo[resp.id].Status = "accepted"

\* C4: refuse on an existing booking answers InvalidState exactly when the
\* status it read is refused or canceled; on pending or accepted it goes on to
\* its write, which (the connection permitting) stores refused, and answers
\* success.
C4_RefuseOutcome ==
    /\ [](/\ \A p \in Procs :
               AtWrite(p, "refuse") => req[p].booking.Status \notin {"refused", "canceled"}
          /\ Answered("refuse") =>
               /\ resp.booking.Status \in {"refused", "canceled"}
                     <=> resp.err = ErrInvalidBookingState
               /\ resp.booking.Status \notin {"refused", "canceled"}
                     => OkOrRepoFailure(resp.err)
               /\ resp.err = nil <=> resp.wrote)
    /\ [][\A p \in Procs :
             WriteStep(p, "refuse") => repo'[req[p].id].Status = "refused"]_vars

C4_Witness ==
    /\ Answered("refuse")
    /\ resp.err = nil
    /\ resp.booking.Status = "accepted"
    /\ repo[resp.id].Status = "refused"

\* C5: cancel on an existing booking answers InvalidState when the status it
\* read is canceled or refused, whoever asks; otherwise NotAllowed when the
\* caller is neither owner nor participant; otherwise it goes on to its write,
\* which (the connection permitting) stores canceled, and answers success.
C5_CancelOutcome ==
    /\ [](/\ \A p \in Procs :
               AtWrite(p, "cancel") =>
                  /\ req[p].booking.Status \notin {"canceled", "refused"}
                  /\ OwnerOrParticipant(req[p].booking, req[p].user)
          /\ Answered("cancel") =>
               /\ resp.booking.Status \in {"canceled", "refused"}
                     <=> resp.err = ErrInvalidBookingState
               /\ (/\ resp.booking.Status \notin {"canceled", "refused"}
                   /\ ~OwnerOrParticipant(resp.booking, resp.user))
                     <=> resp.err = ErrNotAllowed
               /\ (/\ resp.booking.Status \notin {"canceled", "refused"}
                   /\ OwnerOrParticipant(resp.booking, resp.user))
                     => OkOrRepoFailure(resp.err)
               /\ resp.err = nil <=> resp.wrote)
    /\ [][\A p \in Procs :
             WriteStep(p, "cancel") => repo'[req[p].id].Status = "canceled"]_vars

C5_Witness ==
    /\ Answered("cancel")
    /\ resp.err = nil
    /\ resp.booking.Status = "accepted"
    /\ resp.user = player2
    /\ repo[resp.id].Status = "canceled"

\* C6: modify of a booking read as pending goes on to its write iff the
\* caller is the owner or a listed participant, and then answers success when
\* the write succeeds; otherwise it answers NotAllowed having written nothing
\* and sent nothing, the table and the channel being as they were.
C6_ModifyPending ==
    /\ [](/\ \A p \in Procs :
               AtWrite(p, "modify") => OwnerOrParticipant(req[p].booking, req[p].user)
          /\ (Answered("modify") /\ resp.booking.Status = "pending") =>
               /\ resp.wrote <=> resp.err = nil
               /\ resp.err = nil \/ resp.err = ErrNotAllowed \/ resp.err.cause = ErrRepo.cause
               /\ resp.err = ErrNotAllowed =>
                     /\ ~OwnerOrParticipant(resp.booking, resp.user)
                     /\ ~resp.wrote
                     /\ resp.sends = 0)
    /\ [][(ReturnedAtRead /\ resp'.op = "modify" /\ resp'.err = ErrNotAllowed)
             => (repo' = repo /\ nsent' = nsent)]_vars

C6_Witness ==
    /\ Answered("modify")
    /\ resp.booking.Status = "pending"
    /\ resp.err = ErrNotAllowed
    /\ resp.user = player2

\* C7: modify of a booking whose status is read as anything but pending
\* answers InvalidState, never reaches its write and sends nothing.
C7_ModifyNotPending ==
    /\ [](/\ \A p \in Procs : AtWrite(p, "modify") => req[p].booking.Status = "pending"
          /\ (Answered("modify") /\ resp.booking.Status # "pending") =>
               /\ resp.err = ErrInvalidBookingState
               /\ ~resp.wrote
               /\ resp.sends = 0)
    /\ [][(ReturnedAtRead /\ resp'.op = "modify" /\ resp'.err = ErrInvalidBookingState)
             => (repo' = repo /\ nsent' = nsent)]_vars

C7_Witness ==
    /\ Answered("modify")
    /\ resp.booking.Status = "approved"
    /\ resp.err = ErrInvalidBookingState
    /\ resp.user = user1

\* this step is the successful insert of the create request that takes slot p
InsertStep(p) ==
    /\ req[p].pc = "idle"
    /\ req'[p].op = "create"
    /\ req'[p].pc = "notify"

\* C8: right after the insert of a create, the stored status of the new
\* booking is pending, whatever status the draft carried.
C8_CreatedPending ==
    [][\A p \in Procs :
          InsertStep(p) =>
             /\ req'[p].id \in DOMAIN repo' \ DOMAIN repo
             /\ repo'[req'[p].id].Status = "pending"]_vars

C8_Witness ==
    \E p \in Procs :
       /\ req[p].op = "create"
       /\ req[p].pc = "notify"
       /\ req[p].updated.Status = "accepted"
       /\ repo[req[p].id].Status = "pending"

\* C9: the booking a successful create hands back is the stored row: same
\* generated id, same fields, status pending.
C9_ReturnedIsPersisted ==
    [][\A p \in Procs :
          InsertStep(p) => req'[p].booking = repo'[req'[p].id]]_vars

\* C10: modify and cancel let a caller through to the write iff the caller's
\* ID is the owner ID of the booking read or the caller's username is in
\* its participant list; NotAllowed is the answer to exactly the others, on
\* both operations, administrators included.
C10_AuthorizationPredicate ==
    /\ \A p \in Procs :
          (AtWrite(p, "modify") \/ AtWrite(p, "cancel"))
             => OwnerOrParticipant(req[p].booking, req[p].user)
    /\ resp.err = ErrNotAllowed =>
          /\ resp.op \in {"modify", "cancel"}
          /\ ~OwnerOrParticipant(resp.booking, resp.user)

C10_Witness ==
    /\ Answered("cancel")
    /\ resp.err = ErrNotAllowed
    /\ resp.user = adminUser
    /\ resp.booking.Status = "pending"

\* no request is in flight
AllIdle == \A p \in Procs : req[p].pc = "idle"

\* requests in flight
InFlight == Cardinality({p \in Procs : req[p].pc # "idle"})

\* this step is the notification of the request in slot p, which returns
NotifyStep(p) == req[p].pc = "notify" /\ req'[p].pc = "idle"

\* this step is the write of the request in slot p, which failed
WriteFailedStep(p) == req[p].pc = "write" /\ req'[p].pc = "idle"

\* the six fields modify may overwrite
MutableFields(b) ==
    <<b.Game, b.Points, b.Description, b.ReminderEnabled, b.DateTime, b.Players>>

\* the fields modify must leave alone
IdentityAndStatus(b) == <<b.ID, b.UserID, b.Username, b.Status>>

\* the status each transition stores
StatusOf(opname) ==
    CASE opname = "accept" -> "accepted"
      [] opname = "refuse" -> "refused"
      [] opname = "cancel" -> "canceled"

\* in the state this step leads to, the table holds what the request in slot
\* p has just written
WriteApplied(p) ==
    /\ req'[p].id \in DOMAIN repo'
    /\ req'[p].op = "create" => req'[p].id \notin DOMAIN repo
    /\ req'[p].op = "modify" =>
          MutableFields(repo'[req'[p].id]) = MutableFields(req'[p].updated)
    /\ req'[p].op \in {"accept", "refuse", "cancel"} =>
          repo'[req'[p].id].Status = StatusOf(req'[p].op)

C13_NoPartialApply ==
    /\ [](resp.err # nil => ~resp.wrote)
    /\ [][(\A p \in Procs : req'[p].pc = "notify" => req[p].pc = "notify")
             => repo' = repo]_vars

C13_Witness ==
    /\ resp.op = "modify"
    /\ Is(resp.err, ErrRepo)
    /\ resp.err.wrapped = "failed to update booking"
    /\ resp.booking.Game = "test3"
    /\ repo[resp.id] = PendingRow

\* this step is a request to the accept endpoint for booking id, made by an
\* administrator, whose lookup did not fail
AcceptCall(id) ==
    /\ nreq' = nreq + 1
    /\ \/ /\ req' = req
          /\ resp'.op = "accept"
          /\ resp'.id = id
          /\ resp'.invoked
          /\ ~Is(resp'.err, ErrRepo)
       \/ \E p \in Procs :
             /\ req[p].pc = "idle"
             /\ req'[p].pc = "write"
             /\ req'[p].op = "accept"
             /\ req'[p].id = id

\* C14: when the only request so far was an accept of a pending booking,
\* which succeeded, and the next request is an accept of the same booking,
\* that second accept answers InvalidState at its check; the stored status
\* stays accepted and the one message sent is the 'accepted' announcement.
C14_AcceptTwice ==
    [][(/\ nreq = 1
        /\ AllIdle
        /\ resp.op = "accept"
        /\ resp.err = nil
        /\ resp.booking.Status = "pending"
        /\ AcceptCall(resp.id))
          => /\ req' = req
             /\ resp'.err = ErrInvalidBookingState
             /\ resp'.sends = 0
             /\ repo' = repo
             /\ repo'[resp.id].Status = "accepted"
             /\ resp.msg.Title = TitleAccepted
             /\ nsent = 1
             /\ nsent' = 1]_vars

C14_Witness ==
    /\ nreq = 2
    /\ AllIdle
    /\ resp.op = "accept"
    /\ resp.err = ErrInvalidBookingState
    /\ resp.booking.Status = "accepted"
    /\ repo[resp.id].Status = "accepted"
    /\ nsent = 1

\* C15: nothing guards the write of a request that has passed its check: the
\* write fails only when the connection fails, whatever status is stored by
\* then; when it succeeds it stores the status of its own operation, and the
\* notification that follows sends one message and answers success.  So two
\* transitions that both read pending both write, both announce and both
\* succeed, and the status stored is that of the later write.
C15_UnguardedRace ==
    [][\A p \in Procs :
          /\ WriteFailedStep(p) => Is(resp'.err, ErrRepo)
          /\ \A o \in {"accept", "refuse", "cancel"} :
                WriteStep(p, o) => repo'[req[p].id].Status = StatusOf(o)
          /\ NotifyStep(p) =>
                /\ resp'.err = nil
                /\ resp'.sends = 1
                /\ nsent' = nsent + 1]_vars

\* a cancel and an accept have both read the booking as pending; the cancel
\* has written, announced and succeeded; the accept has written after it
C15_Witness ==
    \E p \in Procs :
       /\ nreq = 2
       /\ req[p].op = "accept"
       /\ req[p].pc = "notify"
       /\ req[p].booking.Status = "pending"
       /\ resp.op = "cancel"
       /\ resp.id = req[p].id
       /\ resp.booking.Status = "pending"
       /\ resp.err = nil
       /\ resp.wrote
       /\ resp.sends = 1
       /\ repo[req[p].id].Status = "accepted"

\* C16: in every interleaving, no step changes game, points, description,
\* reminder flag, date-time or players of a stored booking whose stored
\* status is not pending.
C16_FrozenOutsidePending ==
    [][\A id \in DOMAIN repo :
          repo[id].Status # "pending"
             => MutableFields(repo'[id]) = MutableFields(repo[id])]_vars

\* C17: no step of a modify request, whether it returns at its read, fails at
\* its write or writes, changes the ID, owner user ID, owner username or
\* status of any stored booking, adds or removes a booking, or touches a
\* booking other than its own.
C17_ModifyFrame ==
    [][/\ (ReturnedAtRead /\ resp'.op = "modify") => repo' = repo
       /\ \A p \in Procs :
             (req[p].op = "modify" /\ req'[p] # req[p]) =>
                /\ DOMAIN repo' = DOMAIN repo
                /\ \A id \in DOMAIN repo :
                      /\ IdentityAndStatus(repo'[id]) = IdentityAndStatus(repo[id])
                      /\ id # req[p].id => repo'[id] = repo[id]]_vars

C17_Witness ==
    /\ resp.op = "modify"
    /\ resp.wrote
    /\ resp.updated.Status = "accepted"
    /\ resp.updated.UserID = "adminID"
    /\ resp.updated.Username = "admin"
    /\ MutableFields(repo[resp.id]) = MutableFields(resp.updated)
    /\ IdentityAndStatus(repo[resp.id]) = IdentityAndStatus(PendingRow)

\* C18: a request to the accept or refuse endpoint by a user who is no
\* administrator is answered 403 without the engine being invoked: no such
\* request is ever in flight in the engine, and the step that answers it
\* leaves the table and the channel as they were.
C18_AdminOnly ==
    /\ [](/\ \A p \in Procs :
               req[p].op \in {"accept", "refuse"} => req[p].user.Admin
          /\ resp.op \in {"accept", "refuse"} =>
               /\ resp.invoked <=> resp.user.Admin
               /\ ~resp.user.Admin =>
                     /\ resp.code = StatusForbidden
                     /\ ~resp.wrote
                     /\ resp.sends = 0)
    /\ [][(/\ ReturnedAtRead
           /\ resp'.op \in {"accept", "refuse"}
           /\ ~resp'.user.Admin)
             => (repo' = repo /\ nsent' = nsent)]_vars

C18_Witness ==
    /\ resp.op = "refuse"
    /\ resp.user = user1
    /\ resp.code = StatusForbidden
    /\ ~resp.invoked
    /\ resp.id \in DOMAIN repo
    /\ repo[resp.id].Status = "pending"

\* the status the mapping of the specification gives an engine error
MappedStatus(err) ==
    IF Is(err, ErrInvalidBookingState) THEN StatusBadRequest
    ELSE IF Is(err, ErrNotAllowed) THEN StatusForbidden
    ELSE IF Is(err, ErrBookingNotFound) THEN StatusNotFound
    ELSE StatusInternalServerError

\* C19: on every lifecycle endpoint an engine error is answered with 400 for
\* InvalidState, 403 for NotAllowed, 404 for NotFound and 500 for any other
\* failure.
C19_StatusMapping ==
    (resp.invoked /\ resp.err # nil) => resp.code = MappedStatus(resp.err)

\* C20: when the write of cancel fails, cancel returns the error wrapped as
\* "failed to cancel booking", the table is as it was and nothing is sent; a
\* cancel that fails at its lookup or its checks never carries that text.
C20_CancelWriteFailure ==
    [][/\ \A p \in Procs :
             (req[p].op = "cancel" /\ WriteFailedStep(p)) =>
                /\ resp'.err # nil
                /\ resp'.err.wrapped = "failed to cancel booking"
                /\ resp'.sends = 0
                /\ repo' = repo
                /\ nsent' = nsent
       /\ (ReturnedAtRead /\ resp'.op = "cancel") =>
             resp'.err.wrapped # "failed to cancel booking"]_vars

C20_Witness ==
    /\ resp.op = "cancel"
    /\ resp.err.wrapped = "failed to cancel booking"
    /\ Is(resp.err, ErrRepo)
    /\ resp.booking.Status = "pending"
    /\ repo[resp.id].Status = "pending"
    /\ nsent = 0

\* C21: no step removes a stored booking or changes its ID; the set of
\* stored IDs grows only by the insert of a create; the write of a cancel or
\* a refuse changes nothing but the status of its row, and every stored
\* booking is found under its ID.
C21_NeverDeleted ==
    /\ [](\A id \in DOMAIN repo :
             GetBookingByID(id, TRUE) = [booking |-> repo[id], err |-> nil]
             /\ repo[id].ID = id)
    /\ [][/\ DOMAIN repo \subseteq DOMAIN repo'
          /\ \A id \in DOMAIN repo : repo'[id].ID = repo[id].ID
          /\ DOMAIN repo' # DOMAIN repo => \E p \in Procs : InsertStep(p)
          /\ \A p \in Procs : \A o \in {"cancel", "refuse"} :
                WriteStep(p, o) =>
                   repo' = [repo EXCEPT ![req[p].id].Status = StatusOf(o)]]_vars

C21_Witness ==
    /\ resp.op = "cancel"
    /\ resp.wrote
    /\ resp.id \in DOMAIN repo
    /\ repo[resp.id] = [PendingRow EXCEPT !.Status = "canceled"]

\* the status read lets the operation through its status check
StatusPermits(opname, status) ==
    IF opname = "modify" THEN status = "pending"
    ELSE status \notin {"canceled", "refused"}

\* C22: modify and cancel check the status before the caller: on a booking
\* whose status forbids the operation a caller who is neither owner nor
\* participant gets InvalidState, and NotAllowed is only ever the answer for
\* a booking whose status permits the operation.
C22_StatusBeforeAuthorization ==
    \A o \in {"modify", "cancel"} :
       Answered(o) =>
          /\ (/\ ~StatusPermits(o, resp.booking.Status)
              /\ ~OwnerOrParticipant(resp.booking, resp.user))
                => resp.err = ErrInvalidBookingState
          /\ resp.err = ErrNotAllowed => StatusPermits(o, resp.booking.Status)

C22_Witness ==
    /\ Answered("modify")
    /\ resp.user = adminUser
    /\ resp.booking.Status = "accepted"
    /\ resp.err = ErrInvalidBookingState

\* C23: modify, accept, refuse and cancel of an ID under which nothing is
\* stored answer NotFound; the step writes nothing and sends nothing; and on
\* every reachable table an UpdateBooking or SetBookingStatus that matches no
\* row returns NotFound and leaves the table as it is.
C23_NotFound ==
    /\ [](/\ (/\ resp.op \in {"modify", "accept", "refuse", "cancel"}
              /\ resp.err = ErrBookingNotFound)
                => (~resp.wrote /\ resp.sends = 0 /\ resp.booking = NoBooking)
          /\ \A id \in (BookingIDs \cup {MaxBookings + 1}) \ DOMAIN repo :
                /\ GetBookingByID(id, TRUE).err = ErrBookingNotFound
                /\ UpdateBooking([PendingRow EXCEPT !.ID = id], TRUE)
                      = [repo |-> repo, err |-> ErrBookingNotFound]
                /\ \A st \in {"accepted", "refused", "canceled"} :
                      SetBookingStatus(id, st, TRUE)
                         = [repo |-> repo, err |-> ErrBookingNotFound])
    /\ [][(/\ ReturnedAtRead
           /\ resp'.invoked
           /\ resp'.op \in {"modify", "accept", "refuse", "cancel"}
           /\ resp'.id \notin DOMAIN repo
           /\ ~Is(resp'.err, ErrRepo))
             => /\ resp'.err = ErrBookingNotFound
                /\ repo' = repo
                /\ nsent' = nsent]_vars

C23_Witness ==
    /\ resp.op = "cancel"
    /\ resp.user = user1
    /\ resp.err = ErrBookingNotFound
    /\ resp.id \notin DOMAIN repo
    /\ nsent = 0

\* the positions of the players whose search returned a member, in order
FoundPositions(found) ==
    SelectSeq([i \in DOMAIN found |-> i], LAMBDA i : found[i] = "member")

\* the players field the claim describes for the search outcomes found
ExpectedPlayersField(players, found) ==
    LET idx == FoundPositions(found)
    IN Field("Joueurs",
             Join([j \in 1..Len(idx) |-> Tag(MemberID(players[idx[j]]))], ", "))

C25_ReasonField ==
    resp.wrote =>
       /\ resp.reason # "" => resp.op = "refuse"
       /\ IF resp.op = "refuse" /\ resp.reason # ""
          THEN /\ Len(resp.msg.Fields) = 7
               /\ resp.msg.Fields[7] = Field("Raison", resp.reason)
          ELSE Len(resp.msg.Fields) = 6
       /\ \A i \in 1..Len(resp.msg.Fields) :
             resp.msg.Fields[i].Name = "Raison" <=> i = 7
       /\ <<resp.msg.Fields[1].Name, resp.msg.Fields[2].Name,
            resp.msg.Fields[3].Name, resp.msg.Fields[4].Name,
            resp.msg.Fields[5].Name, resp.msg.Fields[6].Name>>
             = <<"Utilisateur", "Date et Heure", "Jeu", "Points", "Joueurs",
                 "Description">>

C25_Witness ==
    /\ resp.op = "refuse"
    /\ resp.wrote
    /\ resp.reason = "table taken"
    /\ resp.msg.Fields[7] = Field("Raison", "table taken")

\* C29: every stored booking has one of the four statuses, and the status of
\* a stored booking changes only in the write step of an accept, a refuse or
\* a cancel of that booking.
C29_StatusDomain ==
    /\ [](\A id \in DOMAIN repo :
             repo[id].Status \in {"pending", "accepted", "refused", "canceled"})
    /\ [][\A id \in DOMAIN repo :
             repo'[id].Status # repo[id].Status =>
                \E p \in Procs : \E o \in {"accept", "refuse", "cancel"} :
                   WriteStep(p, o) /\ req[p].id = id]_vars

C29_Witness ==
    /\ resp.op = "accept"
    /\ resp.wrote
    /\ repo[resp.id].Game = "test2"
    /\ repo[resp.id].Status = "accepted"

\* C30: the owner user ID of a stored booking never changes, and the user
\* with that ID passes the authorization predicate on the stored booking in
\* every reachable state, also after a modify that took the owner's username
\* out of the participant list.
C30_OwnerKeepsAccess ==
    /\ [](\A id \in DOMAIN repo : \A u \in Users :
             u.ID = repo[id].UserID =>
                /\ checkUserAllowed(repo[id], u)
                /\ ModifyCheck([repo[id] EXCEPT !.Status = "pending"], u) = nil
                /\ CancelCheck([repo[id] EXCEPT !.Status = "pending"], u) = nil)
    /\ [][\A id \in DOMAIN repo : repo'[id].UserID = repo[id].UserID]_vars

\* player2, a participant, has modified the booking; the new participant
\* list holds neither player2 nor the owner: player2 is locked out, the
\* owner is not
C30_Witness ==
    /\ resp.op = "modify"
    /\ resp.wrote
    /\ resp.user = player2
    /\ repo[resp.id].UserID = user1.ID
    /\ ~Contains(repo[resp.id].Players, user1.Username)
    /\ checkUserAllowed(repo[resp.id], user1)
    /\ ~checkUserAllowed(repo[resp.id], player2)

\* this step is a SearchMembers call for key
SearchCall(key) ==
    /\ ncall' = ncall + 1
    /\ \/ call' = call /\ ret'.op = "search" /\ ret'.key = key
       \/ \E p \in Procs : call'[p] # call[p] /\ call'[p].pc = "search"
                             /\ call'[p].key = key

\* C26: once a search for a key has completed successfully and until the
\* entry expires, every SearchMembers call for that key returns the stored
\* list without asking the platform; an empty list is stored like any other;
\* a failed search stores nothing; an entry goes away only by expiry.
C26_CacheFirst ==
    [][/\ \A key \in Keys :
             (cache[key].searched /\ SearchCall(key)) =>
                /\ call' = call
                /\ ret'.kind = "members"
                /\ ret'.val = cache[key].val
                /\ ~ret'.external
       /\ \A p \in Procs :
             (call[p].pc = "search" /\ call'[p].pc = "idle") =>
                IF ret'.kind = "error" THEN cache' = cache
                ELSE cache'[call[p].key].kind = "members"
       /\ \A key \in Keys :
             (cache[key].kind # "none" /\ cache'[key].kind = "none") =>
                (call' = call /\ ret' = ret /\ ncall' = ncall)]_vars

\* C27: no SearchMembers call finds under its key a value that is not a
\* list of members.
C27_CacheUnambiguous ==
    ~(ret.op = "search" /\ ret.kind = "panic")

\* C28: the list SearchMembers(q, L) returns is what a search of the
\* platform with limit L yields for q.
C28_LimitRespected ==
    (ret.op = "search" /\ ret.kind = "members")
       => ret.val = Take(Matches(ret.key), ret.limit)

\* C32: a modify request reads, checks and writes the booking of its path
\* ID and no other, whatever ID its body carries: the booking it holds has
\* the path ID, the payload handed to the engine has the path ID, its write
\* changes at most the row of the path ID, and it answers NotFound exactly
\* when nothing is stored under the path ID (the connection permitting).
C32_ModifyPathID ==
    /\ [](/\ \A p \in Procs :
               req[p].op = "modify" =>
                  /\ req[p].updated.ID = req[p].id
                  /\ req[p].booking.ID = req[p].id
          /\ (resp.op = "modify" /\ resp.invoked) =>
               /\ resp.updated.ID = resp.id
               /\ resp.booking.ID \in {0, resp.id})
    /\ [][/\ \A p \in Procs :
               (req[p].op = "modify" /\ req'[p] # req[p]) =>
                  \A id \in DOMAIN repo : id # req[p].id => repo'[id] = repo[id]
          /\ (ReturnedAtRead /\ resp'.op = "modify" /\ ~Is(resp'.err, ErrRepo)) =>
               (resp'.err = ErrBookingNotFound <=> resp'.id \notin DOMAIN repo)]_vars

\* a modify of path 1 by its owner, whose body carried another ID, has
\* rewritten row 1 and left it under ID 1
C32_Witness ==
    /\ resp.op = "modify"
    /\ resp.id = 1
    /\ resp.user = user1
    /\ resp.wrote
    /\ resp.updated.ID = 1
    /\ \A body \in Updates : body.ID # 1
    /\ 1 \in DOMAIN repo
    /\ repo[1].ID = 1
    /\ repo[1].Game = "test3"
\* a create that reached the table: request p holds the row it inserted
Created(p) == req[p].op = "create" /\ req[p].pc = "notify"

\* user is an identity the middleware builds for a member of the guild whose
\* token was accepted: the admin flag is set exactly when the roles of the
\* member hold the configured role
AuthenticatedIdentity(user) ==
    \E cred \in Credentials :
        /\ cred.accessToken # ""
        /\ cred.err = nil
        /\ user.ID = cred.member.User.ID
        /\ user.Username = cred.member.User.Username
        /\ user.Admin <=> (\E i \in DOMAIN cred.member.Roles :
                             cred.member.Roles[i] = AdminRoleID)

\* C31: the owner user ID and the owner username stored for a booking
\* created through the create endpoint are those of the authenticated
\* caller of the request.
C31_OwnerIsCaller ==
    \A p \in Procs :
        Created(p) =>
            /\ req[p].id \in DOMAIN repo
            /\ repo[req[p].id].UserID = req[p].user.ID
            /\ repo[req[p].id].Username = req[p].user.Username
            /\ req[p].booking.UserID = req[p].user.ID
            /\ req[p].booking.Username = req[p].user.Username

\* C36: a request without a token or with a rejected token is answered 401
\* and no handler runs for it: the table is not touched and nothing is
\* announced; every handler that runs, and every engine method that was
\* invoked, sees the identity of a member whose token was accepted, with the
\* admin flag set exactly when the member has the configured role.
C36_AuthenticatedOnly ==
    /\ [](/\ \A p \in Procs :
               req[p].op # "none" => AuthenticatedIdentity(req[p].user)
          /\ resp.invoked => AuthenticatedIdentity(resp.user)
          /\ resp.op # "none" => AuthenticatedIdentity(resp.user)
          /\ resp.code = StatusUnauthorized =>
               /\ resp.op = "none"
               /\ ~resp.invoked
               /\ ~resp.wrote
               /\ resp.sends = 0)
    /\ [][(ReturnedAtRead /\ resp'.code = StatusUnauthorized) =>
               /\ repo' = repo
               /\ nsent' = nsent
               /\ resp'.user = NoUser]_vars

\* a request was turned away with 401 while an accept of the admin is in
\* flight and the stored booking is as it was
C36_Witness ==
    /\ resp.code = StatusUnauthorized
    /\ ~resp.invoked
    /\ \E p \in Procs :
          /\ req[p].op = "accept"
          /\ req[p].pc = "write"
          /\ req[p].user = adminUser
    /\ 1 \in DOMAIN repo
    /\ repo[1] = PendingRow
    /\ nsent = 0

\* the stored bookings that the aggregate counts are to count
CountedIDs == {id \in DOMAIN repo :
                 repo[id].Status \notin {"pending", "canceled", "refused"}}

\* the count a list of counts reports for key k under field f: the count of
\* its entry for k, 0 when it has none
Reported(counts, f, k) ==
    IF \E e \in counts : e[f] = k
    THEN (CHOOSE e \in counts : e[f] = k).Count
    ELSE 0

\* counts has at most one entry per key, and none with a count of 0
WellFormed(counts, f) ==
    /\ \A e1, e2 \in counts : e1[f] = e2[f] => e1 = e2
    /\ \A e \in counts : e.Count > 0

\* C33: each read operation returns exactly what the repository call it
\* delegates to returns for the same arguments, result and error, whatever
\* the status of the bookings; a read changes no stored booking, starts no
\* request, searches no member and sends no announcement.
C33_ReadPassThrough ==
    /\ [](/\ out.op = "ListActive" =>
               /\ out.rows = Repository_GetActiveBookings(out.now, out.ok).rows
               /\ out.err = Repository_GetActiveBookings(out.now, out.ok).err
          /\ out.op = "GetByID" =>
               /\ out.booking = GetBookingByID(out.id, out.ok).booking
               /\ out.err = GetBookingByID(out.id, out.ok).err
          /\ out.op = "GetByUsername" =>
               /\ out.rows = GetBookingsPerUsername(out.username, out.ok).rows
               /\ out.err = GetBookingsPerUsername(out.username, out.ok).err
          /\ out.op = "GetGameStats" =>
               /\ out.counts = Repository_GetBookingCountPerGame(out.ok).counts
               /\ out.err = Repository_GetBookingCountPerGame(out.ok).err
          /\ out.op = "GetGameStatsPerPeriod" =>
               /\ out.counts = Repository_GetBookingCountPerGameInPeriod(
                                  out.start, out.end, out.ok).counts
               /\ out.err = Repository_GetBookingCountPerGameInPeriod(
                               out.start, out.end, out.ok).err
          /\ out.op = "GetGameStatsPerDay" =>
               /\ out.counts = Repository_GetBookingCountPerWeekDay(out.ok).counts
               /\ out.err = Repository_GetBookingCountPerWeekDay(out.ok).err
          /\ ~out.ok => out.err.cause = ErrRepo.cause
          /\ out.err \notin {ErrNotAllowed, ErrInvalidBookingState})
    /\ [][out' # out =>
             /\ repo' = repo
             /\ req' = req
             /\ resp' = resp
             /\ nreq' = nreq
             /\ nsent' = nsent
             /\ cache' = cache
             /\ call' = call
             /\ ncall' = ncall]_vars

\* a canceled booking was fetched by its ID and handed out as it is stored,
\* and nothing was sent
C33_Witness ==
    /\ out.op = "GetByID"
    /\ out.err = nil
    /\ out.id \in DOMAIN repo
    /\ out.booking = repo[out.id]
    /\ out.booking.Status = "canceled"
    /\ nsent = 0
    /\ ncall = 0

\* C34: for every game, and for every weekday, the count an aggregate
\* reports equals the number of stored bookings with that game (weekday)
\* whose status is none of pending, canceled, refused; the count of a
\* period is taken over the bookings dated within it.
C34_CountsSkipPendingCanceledRefused ==
    /\ (out.op = "GetGameStats" /\ out.err = nil) =>
          /\ WellFormed(out.counts, "Game")
          /\ \A e \in out.counts : e.Game \in Games
          /\ \A g \in Games :
                Reported(out.counts, "Game", g) =
                   Cardinality({id \in CountedIDs : repo[id].Game = g})
    /\ (out.op = "GetGameStatsPerDay" /\ out.err = nil) =>
          /\ WellFormed(out.counts, "WeekDay")
          /\ \A e \in out.counts : \E i \in DOMAIN DayNames : e.WeekDay = DayNames[i]
          /\ \A i \in DOMAIN DayNames :
                Reported(out.counts, "WeekDay", DayNames[i]) =
                   Cardinality({id \in CountedIDs :
                                  WeekDay(repo[id].DateTime) = DayNames[i]})
    /\ (out.op = "GetGameStatsPerPeriod" /\ out.err = nil) =>
          /\ WellFormed(out.counts, "Game")
          /\ \A e \in out.counts : e.Game \in Games
          /\ \A g \in Games :
                Reported(out.counts, "Game", g) =
                   Cardinality({id \in CountedIDs :
                                  /\ repo[id].Game = g
                                  /\ out.start <= repo[id].DateTime
                                  /\ repo[id].DateTime <= out.end})

\* the table holds an accepted and a refused booking of test1: the count of
\* test1 is 1
C34_Witness ==
    /\ out.op = "GetGameStats"
    /\ out.err = nil
    /\ \E i, j \in DOMAIN repo :
          /\ repo[i].Game = "test1" /\ repo[i].Status = "accepted"
          /\ repo[j].Game = "test1" /\ repo[j].Status = "refused"
    /\ [Game |-> "test1", Count |-> 1] \in out.counts

\* C35: fetch-all-active returns exactly the stored bookings dated at or
\* after the instant of the query, whatever their status.
C35_ActiveByTimeOnly ==
    (out.op = "ListActive" /\ out.err = nil) =>
        /\ \A b \in out.rows : \E id \in DOMAIN repo : repo[id] = b
        /\ \A id \in DOMAIN repo :
              repo[id] \in out.rows <=> repo[id].DateTime >= out.now

\* a canceled booking dated at the instant of the query is in the result and
\* an accepted booking dated before it is not
C35_Witness ==
    /\ out.op = "ListActive"
    /\ out.err = nil
    /\ \E i, j \in DOMAIN repo :
          /\ repo[i].Status = "canceled"
          /\ repo[i].DateTime = out.now
          /\ repo[i] \in out.rows
          /\ repo[j].Status = "accepted"
          /\ repo[j].DateTime < out.now
          /\ repo[j] \notin out.rows

====
